---- MODULE Spec2Model ----
(***************************************************************************)
(* Reconciliation of a security group's ingress rules with the public IPs  *)
(* of an autoscaling group's instances.  The repository holds two Handler  *)
(* programs: the lifecycle-hook handler (src/unnamed/part_002: port 443,   *)
(* excludes the terminating instance, completes the lifecycle action) and  *)
(* the handler of src/main.go (ports 0-65535, no exclusion, no lifecycle   *)
(* completion).  One step of the model is one provider call of a Handler   *)
(* together with the local computation that follows it.  Spec runs the     *)
(* lifecycle-hook handler, SpecAll either handler, SpecRace two            *)
(* invocations of the lifecycle-hook handler at once.                      *)
(***************************************************************************)
EXTENDS Naturals, Sequences, FiniteSets, TLC

VARIABLES
    variant,      \* which of the two Handler programs is deployed
    asgGroups,    \* DescribeAutoScalingGroups output: AutoScalingGroups (0 or 1 group)
    instances,    \* EC2: instance id -> [State, PublicIpAddress]
    sg,           \* the security group's IpPermissions, in DescribeSecurityGroups order
    h             \* invocation -> the Handler's locals and its position

vars == <<variant, asgGroups, instances, sg, h>>

(***************************** the universe *********************************)

Variants == {"part_002", "main.go"}

InstanceIds == {"i-1", "i-2"}

MemberLists == {<<>>, <<"i-1">>, <<"i-2">>, <<"i-1", "i-2">>}

PublicIpOf(i) == IF i = "i-1" THEN "1.1.1.1" ELSE "2.2.2.2"

PowerStates == {"running", "shutting-down", "terminated"}

Transitions == {"autoscaling:EC2_INSTANCE_LAUNCHING", "autoscaling:EC2_INSTANCE_TERMINATING"}

Requests == [LifecycleTransition : Transitions, EC2InstanceID : InstanceIds]

InstanceRecords(i) == [State : PowerStates, PublicIpAddress : {"", PublicIpOf(i)}]

\* A rule entry the function did not create (ssh from anywhere).
ForeignPermission ==
    [FromPort |-> 22, ToPort |-> 22, IpProtocol |-> "tcp", IpRanges |-> {"0.0.0.0/0"}]

(************************** program constants *******************************)

HTTPSPort == 443

TCPProtocol == "tcp"

LifecycleActionResultContinue == "CONTINUE"

LifecycleActionResultAbandon == "ABANDON"

MainFromPort == 0

MainToPort == 65535

EmptyMap == [k \in {} |-> ""]

\* The orders in which a Go map with key set S may be ranged over.
RangeOrders(S) ==
    {s \in [1..Cardinality(S) -> S] : \A i, j \in 1..Cardinality(S) : i # j => s[i] # s[j]}

SeqToSet(s) == {s[i] : i \in 1..Len(s)}

(************************** the pure functions ******************************)

\* getIPsToAdd without its membership test.
getIPsToAddUnfiltered(asgIPs, sgIPs, order) == order

\* getIPsToAdd: the keys of asgIPs, in map range order, that sgIPs does not hold.
getIPsToAdd(asgIPs, sgIPs, order) ==
    SelectSeq(order, LAMBDA i : i \notin DOMAIN sgIPs)

\* getIPsToRemove without its membership test.
getIPsToRemoveUnfiltered(sgIPs, asgIPs, order) == order

\* getIPsToRemove (part_002): the keys of sgIPs that asgIPs does not hold.
getIPsToRemove(sgIPs, asgIPs, order) ==
    SelectSeq(order, LAMBDA i : i \notin DOMAIN asgIPs)

\* getIPsToRemove (main.go): same loop, parameters in the other order.
getIPsToRemoveMain(asgIPs, sgIPs, order) ==
    SelectSeq(order, LAMBDA i : i \notin DOMAIN asgIPs)

\* getSGIPs reading the ranges of every entry of IpPermissions.
getSGIPsAllEntries(perms) ==
    [c \in UNION {perms[i].IpRanges : i \in 1..Len(perms)} |-> c]

\* getSGIPs after a successful describe: the ranges of IpPermissions[0] only.
getSGIPs(perms) ==
    IF Len(perms) # 0
    THEN [c \in perms[1].IpRanges |-> c]
    ELSE EmptyMap

\* AddReservation without the skip of the terminating instance.
AddReservationKeepsSelf(event, rsvInst, ips) ==
    IF /\ rsvInst.State # "shutting-down"
       /\ rsvInst.State # "terminated"
       /\ rsvInst.PublicIpAddress # ""
    THEN ((rsvInst.PublicIpAddress \o "/32") :> rsvInst.PublicIpAddress) @@ ips
    ELSE ips

\* Body of the reservation loop of getASGPublicIPs (part_002).
AddReservation(event, rsvInst, ips) ==
    IF /\ event.LifecycleTransition = "autoscaling:EC2_INSTANCE_TERMINATING"
       /\ rsvInst.InstanceId = event.EC2InstanceID
    THEN ips
    ELSE IF /\ rsvInst.State # "shutting-down"
            /\ rsvInst.State # "terminated"
            /\ rsvInst.PublicIpAddress # ""
         THEN ((rsvInst.PublicIpAddress \o "/32") :> rsvInst.PublicIpAddress) @@ ips
         ELSE ips

\* Body of the reservation loop of getASGPublicIPs (main.go): no exclusion.
AddReservationMain(event, rsvInst, ips) ==
    IF /\ rsvInst.State # "shutting-down"
       /\ rsvInst.State # "terminated"
       /\ rsvInst.PublicIpAddress # ""
    THEN ((rsvInst.PublicIpAddress \o "/32") :> rsvInst.PublicIpAddress) @@ ips
    ELSE ips

\* One IpPermission per address, as the Handler (part_002) builds them.
IpPermission(ip) ==
    [FromPort |-> HTTPSPort, ToPort |-> HTTPSPort, IpProtocol |-> TCPProtocol,
     IpRanges |-> {ip}]

\* One IpPermission per address, as the Handler of main.go builds them.
IpPermissionMain(ip) ==
    [FromPort |-> MainFromPort, ToPort |-> MainToPort, IpProtocol |-> "tcp",
     IpRanges |-> {ip}]

PermissionOf(v, ip) == IF v = "part_002" THEN IpPermission(ip) ELSE IpPermissionMain(ip)

\* BuildPermissions putting the whole list into the ranges of a single entry.
BuildPermissionsBatched(v, ips) ==
    IF Len(ips) = 0 THEN <<>>
    ELSE <<[PermissionOf(v, ips[1]) EXCEPT !.IpRanges = {ips[i] : i \in 1..Len(ips)}]>>

\* addPermissions / removePermissions: one entry per element of the list.
BuildPermissions(v, ips) == [i \in 1..Len(ips) |-> PermissionOf(v, ips[i])]

(****************************** the provider ********************************)

SameRule(a, b) ==
    /\ a.FromPort = b.FromPort
    /\ a.ToPort = b.ToPort
    /\ a.IpProtocol = b.IpProtocol

\* All (rule, cidr) pairs of a list of permissions.
RuleCidrs(perms) ==
    UNION {{<<perms[i].FromPort, perms[i].ToPort, perms[i].IpProtocol, c>> :
              c \in perms[i].IpRanges} : i \in 1..Len(perms)}

AllCidrs(perms) == UNION {perms[i].IpRanges : i \in 1..Len(perms)}

\* AuthorizeSecurityGroupIngress rejects a request naming a rule that exists.
HasDuplicate(perms, req) == RuleCidrs(perms) \cap RuleCidrs(req) # {}

RECURSIVE AuthorizeIngress(_, _)
\* The rules after a successful authorize: ranges join the entry of their
\* protocol and ports, a new entry is listed last.
AuthorizeIngress(perms, req) ==
    IF req = <<>> THEN perms
    ELSE LET r == Head(req)
             hit == {i \in 1..Len(perms) : SameRule(perms[i], r)}
             next == IF hit = {}
                     THEN Append(perms, r)
                     ELSE [i \in 1..Len(perms) |->
                             IF i \in hit
                             THEN [perms[i] EXCEPT !.IpRanges = @ \cup r.IpRanges]
                             ELSE perms[i]]
         IN AuthorizeIngress(next, Tail(req))

RECURSIVE RevokeIngress(_, _)
\* The rules after a successful revoke: matching ranges leave their entry,
\* an entry left without ranges is no longer listed.
RevokeIngress(perms, req) ==
    IF req = <<>> THEN perms
    ELSE LET r == Head(req)
             cut == [i \in 1..Len(perms) |->
                       IF SameRule(perms[i], r)
                       THEN [perms[i] EXCEPT !.IpRanges = @ \ r.IpRanges]
                       ELSE perms[i]]
         IN RevokeIngress(SelectSeq(cut, LAMBDA e : e.IpRanges # {}), Tail(req))

(*************************** the Handler's locals ***************************)

NoRequest == [LifecycleTransition |-> "", EC2InstanceID |-> ""]

NoResponse == [AddedIPs |-> <<>>, RemovedIPs |-> <<>>]

\* The locals of an invocation that has not started.
Idle ==
    [pc |-> "idle", request |-> NoRequest, members |-> <<>>, idx |-> 1,
     asgIPs |-> EmptyMap, sgIPs |-> EmptyMap, ipsToAdd |-> <<>>, ipsToRemove |-> <<>>,
     status |-> "", response |-> NoResponse, err |-> "", calls |-> <<>>,
     sgStart |-> <<>>, interfered |-> FALSE, repeat |-> FALSE, raced |-> FALSE]

\* Handler entry: zero-valued response, nil error.  sgStart, interfered,
\* repeat and raced are history: the rules at entry, whether instance state
\* changed or another invocation stepped since entry, whether this invocation
\* repeats the request of a successful undisturbed one, and whether another
\* invocation stepped between this one's entry and its return.
Locals(req, perms, rep) ==
    [Idle EXCEPT !.pc = "NewSession", !.request = req, !.sgStart = perms, !.repeat = rep]

Call(op, ok, arg) == [op |-> op, ok |-> ok, arg |-> arg]

Logged(rec, op, ok, arg) == [rec EXCEPT !.calls = Append(@, Call(op, ok, arg))]

\* Failed with the return forgotten: the error is set and the Handler goes on.
FailedWithoutReturn(v, rec, e) ==
    [rec EXCEPT !.err = e, !.pc = "DescribeSecurityGroups"]

\* Failed with the lists computed so far put into the response.
FailedWithLists(v, rec, e) ==
    LET lists == [AddedIPs |-> rec.ipsToAdd, RemovedIPs |-> rec.ipsToRemove]
    IN IF v = "part_002"
       THEN [rec EXCEPT !.err = e, !.status = LifecycleActionResultAbandon,
                        !.response = lists, !.pc = "CompleteLifecycleAction"]
       ELSE [rec EXCEPT !.err = e, !.response = lists, !.pc = "done"]

\* An error return of the Handler: part_002 first sends ABANDON, main.go returns.
Failed(v, rec, e) ==
    IF v = "part_002"
    THEN [rec EXCEPT !.err = e, !.status = LifecycleActionResultAbandon,
                     !.pc = "CompleteLifecycleAction"]
    ELSE [rec EXCEPT !.err = e, !.pc = "done"]

\* The end of the Handler: part_002 first sends CONTINUE, main.go returns the lists.
Succeeded(v, rec) ==
    IF v = "part_002"
    THEN [rec EXCEPT !.status = LifecycleActionResultContinue,
                     !.pc = "CompleteLifecycleAction"]
    ELSE [rec EXCEPT !.response = [AddedIPs |-> rec.ipsToAdd, RemovedIPs |-> rec.ipsToRemove],
                     !.pc = "done"]

\* AfterAuthorize without the length test: revoke is always called.
AfterAuthorizeAlwaysRevokes(v, rec) == [rec EXCEPT !.pc = "Revoke"]

\* if len(ipsToRemove) != 0 { revoke }
AfterAuthorize(v, rec) ==
    IF Len(rec.ipsToRemove) # 0 THEN [rec EXCEPT !.pc = "Revoke"] ELSE Succeeded(v, rec)

\* AfterDiff that treats an empty Desired Set as nothing to do.
AfterDiffSkipsEmptyDesired(v, rec) ==
    IF DOMAIN rec.asgIPs = {} THEN Succeeded(v, rec)
    ELSE IF Len(rec.ipsToAdd) # 0 THEN [rec EXCEPT !.pc = "Authorize"]
         ELSE AfterAuthorize(v, rec)

\* if len(ipsToAdd) != 0 { authorize }
AfterDiff(v, rec) ==
    IF Len(rec.ipsToAdd) # 0 THEN [rec EXCEPT !.pc = "Authorize"] ELSE AfterAuthorize(v, rec)

\* The two diffs, as each Handler calls them.
Diffed(v, rec, o1, o2) ==
    [rec EXCEPT !.ipsToAdd = getIPsToAdd(rec.asgIPs, rec.sgIPs, o1),
                !.ipsToRemove = IF v = "part_002"
                                THEN getIPsToRemove(rec.sgIPs, rec.asgIPs, o2)
                                ELSE getIPsToRemoveMain(rec.asgIPs, rec.sgIPs, o2)]

\* A step of invocation p disturbs every other invocation under way.
Stepped(p, rec) ==
    [q \in DOMAIN h |->
        IF q = p THEN rec
        ELSE IF h[q].pc \notin {"idle", "done"}
             THEN [h[q] EXCEPT !.interfered = TRUE, !.raced = TRUE]
             ELSE IF h[q].pc = "done" THEN [h[q] EXCEPT !.interfered = TRUE] ELSE h[q]]

(******************************* initial states *****************************)

GroupStates == {<<>>} \cup {<<[Instances |-> m]>> : m \in MemberLists}

\* The addresses earlier runs may have authorized: those of the instances and
\* one of an instance that is long gone.
ManagedCidrs == {PublicIpOf(i) \o "/32" : i \in InstanceIds} \cup {"3.3.3.3/32"}

\* The entry the Handler's own authorize calls leave behind.
ManagedPermission(v, S) == [PermissionOf(v, "") EXCEPT !.IpRanges = S]

\* The rule lists a deployment may start from: no rule, the function's own
\* entry, and either with a rule entry the function did not create.
RuleStates(v) ==
    {<<>>, <<ForeignPermission>>}
    \cup {<<ManagedPermission(v, S)>> : S \in (SUBSET ManagedCidrs) \ {{}}}
    \cup {<<ForeignPermission, ManagedPermission(v, S)>> : S \in (SUBSET ManagedCidrs) \ {{}}}
    \cup {<<ManagedPermission(v, S), ForeignPermission>> : S \in (SUBSET ManagedCidrs) \ {{}}}

\* An instance the group does not list is never looked up: it is kept out of
\* the picture as a terminated instance without address.
Gone == [State |-> "terminated", PublicIpAddress |-> ""]

Listed(groups) == IF groups = <<>> THEN {} ELSE SeqToSet(groups[1].Instances)

InitEnv ==
    /\ asgGroups \in GroupStates
    /\ instances \in {f \in [InstanceIds -> UNION {InstanceRecords(i) : i \in InstanceIds}] :
                          \A i \in InstanceIds :
                             IF i \in Listed(asgGroups) THEN f[i] \in InstanceRecords(i)
                                                        ELSE f[i] = Gone}
    /\ sg \in RuleStates(variant)
    /\ h = [p \in {1} |-> Idle]

\* The lifecycle-hook Handler (part_002) is deployed.
Init == variant = "part_002" /\ InitEnv

\* Either Handler is deployed.
InitAll == variant \in Variants /\ InitEnv

(********************************* the steps ********************************)

\* lambda.Start(Handler): the trigger delivers a lifecycle event.
Invoke(p) ==
    /\ h[p].pc \in {"idle", "done"}
    /\ \E req \in Requests :
         h' = Stepped(p, Locals(req, sg,
                 /\ h[p].pc = "done"
                 /\ h[p].err = ""
                 /\ ~h[p].interfered
                 /\ req = h[p].request))
    /\ UNCHANGED <<variant, asgGroups, instances, sg>>

\* session.NewSession; on error both Handlers return at once.
NewSession(p) ==
    /\ h[p].pc = "NewSession"
    /\ \E ok \in BOOLEAN :
         h' = Stepped(p, IF ok
                         THEN [h[p] EXCEPT !.pc = "DescribeAutoScalingGroups"]
                         ELSE [h[p] EXCEPT !.err = "NewSession", !.pc = "done"])
    /\ UNCHANGED <<variant, asgGroups, instances, sg>>

\* getASGPublicIPs up to the instance loop.
DescribeAutoScalingGroups(p) ==
    /\ h[p].pc = "DescribeAutoScalingGroups"
    /\ \E ok \in BOOLEAN :
         LET rec == Logged(h[p], "DescribeAutoScalingGroups", ok, <<>>)
         IN h' = Stepped(p,
                  IF ~ok THEN Failed(variant, rec, "DescribeAutoScalingGroups")
                  ELSE IF asgGroups = <<>>
                       THEN Failed(variant, rec, "autoscaling group response is empty")
                       ELSE LET m == asgGroups[1].Instances
                            IN [rec EXCEPT !.members = m, !.idx = 1, !.asgIPs = EmptyMap,
                                           !.pc = IF Len(m) = 0 THEN "DescribeSecurityGroups"
                                                  ELSE "DescribeInstances"])
    /\ UNCHANGED <<variant, asgGroups, instances, sg>>

\* One round of the instance loop of getASGPublicIPs.
DescribeInstances(p) ==
    /\ h[p].pc = "DescribeInstances"
    /\ \E ok \in BOOLEAN :
         LET id == h[p].members[h[p].idx]
             rec == Logged(h[p], "DescribeInstances", ok, <<id>>)
             rsvInst == [InstanceId |-> id, State |-> instances[id].State,
                         PublicIpAddress |-> instances[id].PublicIpAddress]
             ips == IF variant = "part_002"
                    THEN AddReservation(rec.request, rsvInst, rec.asgIPs)
                    ELSE AddReservationMain(rec.request, rsvInst, rec.asgIPs)
         IN h' = Stepped(p,
                  IF ~ok THEN Failed(variant, rec, "DescribeInstances")
                  ELSE [rec EXCEPT !.asgIPs = ips, !.idx = @ + 1,
                                   !.pc = IF rec.idx = Len(rec.members)
                                          THEN "DescribeSecurityGroups"
                                          ELSE "DescribeInstances"])
    /\ UNCHANGED <<variant, asgGroups, instances, sg>>

\* getSGIPs, then the two diffs.
DescribeSecurityGroups(p) ==
    /\ h[p].pc = "DescribeSecurityGroups"
    /\ \E ok \in BOOLEAN :
         LET rec == Logged(h[p], "DescribeSecurityGroups", ok, <<>>)
             read == [rec EXCEPT !.sgIPs = getSGIPs(sg)]
         IN IF ~ok
            THEN h' = Stepped(p, Failed(variant, rec, "DescribeSecurityGroups"))
            ELSE \E o1 \in RangeOrders(DOMAIN read.asgIPs), o2 \in RangeOrders(DOMAIN read.sgIPs) :
                    h' = Stepped(p, AfterDiff(variant, Diffed(variant, read, o1, o2)))
    /\ UNCHANGED <<variant, asgGroups, instances, sg>>

\* AuthorizeSecurityGroupIngress with addPermissions.
Authorize(p) ==
    /\ h[p].pc = "Authorize"
    /\ \E accept \in BOOLEAN :
         LET req == BuildPermissions(variant, h[p].ipsToAdd)
             ok == accept /\ ~HasDuplicate(sg, req)
             rec == Logged(h[p], "AuthorizeSecurityGroupIngress", ok, req)
         IN /\ h' = Stepped(p, IF ok THEN AfterAuthorize(variant, rec)
                                      ELSE Failed(variant, rec, "AuthorizeSecurityGroupIngress"))
            /\ sg' = IF ok THEN AuthorizeIngress(sg, req) ELSE sg
    /\ UNCHANGED <<variant, asgGroups, instances>>

\* RevokeSecurityGroupIngress with removePermissions.  The provider may refuse
\* a request that names an absent rule, or accept it and remove what matches.
Revoke(p) ==
    /\ h[p].pc = "Revoke"
    /\ \E ok \in BOOLEAN :
         LET req == BuildPermissions(variant, h[p].ipsToRemove)
             rec == Logged(h[p], "RevokeSecurityGroupIngress", ok, req)
         IN /\ h' = Stepped(p, IF ok THEN Succeeded(variant, rec)
                                      ELSE Failed(variant, rec, "RevokeSecurityGroupIngress"))
            /\ sg' = IF ok THEN RevokeIngress(sg, req) ELSE sg
    /\ UNCHANGED <<variant, asgGroups, instances>>

\* Acknowledged with the call's error returned to the caller of the Handler.
AcknowledgedOrError(rec, ok) ==
    IF ok
    THEN [rec EXCEPT !.pc = "done",
                     !.response = IF rec.status = LifecycleActionResultContinue
                                  THEN [AddedIPs |-> rec.ipsToAdd,
                                        RemovedIPs |-> rec.ipsToRemove]
                                  ELSE @]
    ELSE [rec EXCEPT !.pc = "done", !.err = "CompleteLifecycleAction"]

\* The Handler's return after sendResponseToASG, which drops what
\* CompleteLifecycleAction returned: ok is not read.
Acknowledged(rec, ok) ==
    [rec EXCEPT !.pc = "done",
                !.response = IF rec.status = LifecycleActionResultContinue
                             THEN [AddedIPs |-> rec.ipsToAdd,
                                   RemovedIPs |-> rec.ipsToRemove]
                             ELSE @]

\* sendResponseToASG, then the Handler's return.
sendResponseToASG(p) ==
    /\ h[p].pc = "CompleteLifecycleAction"
    /\ \E ok \in BOOLEAN :
         LET rec == Logged(h[p], "CompleteLifecycleAction", ok, <<h[p].status>>)
         IN h' = Stepped(p, Acknowledged(rec, ok))
    /\ UNCHANGED <<variant, asgGroups, instances, sg>>

\* The members of a group after instance i left it / joined it.
Without(groups, i) ==
    <<[Instances |-> SelectSeq(groups[1].Instances, LAMBDA m : m # i)]>>

With(groups, i) ==
    <<[Instances |-> IF i = "i-1" THEN <<i>> \o groups[1].Instances
                                  ELSE Append(groups[1].Instances, i)]>>

\* The autoscaling group terminates, detaches or launches an instance while
\* an invocation is under way or has returned.
EnvChange ==
    /\ \E p \in DOMAIN h : h[p].pc # "idle"
    /\ h' = [q \in DOMAIN h |->
               IF h[q].pc # "idle" THEN [h[q] EXCEPT !.interfered = TRUE] ELSE h[q]]
    /\ \E i \in InstanceIds :
          \/ /\ i \in Listed(asgGroups)
             /\ instances[i].State = "running"
             /\ instances' = [instances EXCEPT ![i].State = "shutting-down"]
             /\ UNCHANGED asgGroups
          \/ /\ i \in Listed(asgGroups)
             /\ instances[i].State # "running"
             /\ instances' = [instances EXCEPT ![i] = Gone]
             /\ asgGroups' = Without(asgGroups, i)
          \/ /\ asgGroups # <<>>
             /\ i \notin Listed(asgGroups)
             /\ instances' = [instances EXCEPT ![i] =
                                [State |-> "running", PublicIpAddress |-> PublicIpOf(i)]]
             /\ asgGroups' = With(asgGroups, i)
    /\ UNCHANGED <<variant, sg>>

Next ==
    \/ \E p \in DOMAIN h : Invoke(p)
    \/ \E p \in DOMAIN h : NewSession(p)
    \/ \E p \in DOMAIN h : DescribeAutoScalingGroups(p)
    \/ \E p \in DOMAIN h : DescribeInstances(p)
    \/ \E p \in DOMAIN h : DescribeSecurityGroups(p)
    \/ \E p \in DOMAIN h : Authorize(p)
    \/ \E p \in DOMAIN h : Revoke(p)
    \/ \E p \in DOMAIN h : sendResponseToASG(p)
    \/ EnvChange

Spec == Init /\ [][Next]_vars

SpecAll == InitAll /\ [][Next]_vars

(************************** two invocations at once *************************)

\* Two instances of the group came up together: both are running with their
\* addresses, the trigger delivers one event to each of two invocations of
\* the lifecycle-hook Handler, and instance state stays as it is.
RaceRuleStates ==
    {<<>>,
     <<ManagedPermission("part_002", {"1.1.1.1/32", "3.3.3.3/32"})>>,
     <<ForeignPermission, ManagedPermission("part_002", {"3.3.3.3/32"})>>}

InitRace ==
    /\ variant = "part_002"
    /\ asgGroups = <<[Instances |-> <<"i-1", "i-2">>]>>
    /\ instances = [i \in InstanceIds |->
                      [State |-> "running", PublicIpAddress |-> PublicIpOf(i)]]
    /\ sg \in RaceRuleStates
    /\ h = [p \in {1, 2} |-> Idle]

\* The first two invocations start whenever their events arrive; a further
\* one starts when every earlier one has returned.
InvokeInTurn(p) ==
    /\ \/ h[p].pc = "idle"
       \/ \A q \in DOMAIN h : h[q].pc = "done"
    /\ Invoke(p)

NextRace ==
    \/ \E p \in DOMAIN h : InvokeInTurn(p)
    \/ \E p \in DOMAIN h : NewSession(p)
    \/ \E p \in DOMAIN h : DescribeAutoScalingGroups(p)
    \/ \E p \in DOMAIN h : DescribeInstances(p)
    \/ \E p \in DOMAIN h : DescribeSecurityGroups(p)
    \/ \E p \in DOMAIN h : Authorize(p)
    \/ \E p \in DOMAIN h : Revoke(p)
    \/ \E p \in DOMAIN h : sendResponseToASG(p)

SpecRace == InitRace /\ [][NextRace]_vars

(***************************** reading the state ****************************)

Desired(p) == DOMAIN h[p].asgIPs

Observed(p) == DOMAIN h[p].sgIPs

ToAdd(p) == SeqToSet(h[p].ipsToAdd)

ToRemove(p) == SeqToSet(h[p].ipsToRemove)

\* getASGPublicIPs has returned its map with a nil error.
InventoryRead(p) ==
    /\ h[p].pc \notin {"idle", "NewSession", "DescribeAutoScalingGroups", "DescribeInstances"}
    /\ h[p].err \notin {"NewSession", "DescribeAutoScalingGroups",
                         "autoscaling group response is empty", "DescribeInstances"}

\* getSGIPs has returned too, and the two diffs are computed.
BothRead(p) ==
    /\ InventoryRead(p)
    /\ h[p].pc # "DescribeSecurityGroups"
    /\ h[p].err # "DescribeSecurityGroups"

\* The positions in the call log of the calls of one operation.
CallsOf(p, op) == {i \in 1..Len(h[p].calls) : h[p].calls[i].op = op}

\* The addresses a logged authorize or revoke call carried.
CidrsOf(call) == AllCidrs(call.arg)

(********************************* the claims *******************************)

\* C1: once both reads are done, ipsToAdd lists exactly Desired \ Observed and
\* ipsToRemove exactly Observed \ Desired, each member once whatever the map
\* range order; so toAdd misses Observed, toRemove lies in Observed, and
\* (Observed + toAdd) - toRemove is Desired.
C1_Diff ==
    \A p \in DOMAIN h :
        BothRead(p) =>
            /\ ToAdd(p) = Desired(p) \ Observed(p)
            /\ ToRemove(p) = Observed(p) \ Desired(p)
            /\ Len(h[p].ipsToAdd) = Cardinality(Desired(p) \ Observed(p))
            /\ Len(h[p].ipsToRemove) = Cardinality(Observed(p) \ Desired(p))
            /\ ToAdd(p) \cap Observed(p) = {}
            /\ ToRemove(p) \subseteq Observed(p)
            /\ (Observed(p) \cup ToAdd(p)) \ ToRemove(p) = Desired(p)

\* C1 witness: the Handler of main.go computes an addition and a removal and
\* leaves one observed address alone.
C1_Witness ==
    \E p \in DOMAIN h :
        /\ BothRead(p)
        /\ variant = "main.go"
        /\ h[p].ipsToAdd # <<>>
        /\ h[p].ipsToRemove # <<>>
        /\ Desired(p) \cap Observed(p) # {}

\* C2: a Handler run that nothing disturbed and that returned success leaves
\* rules from which getSGIPs reads exactly the Desired Set of that run,
\* whatever rule entries the group held before.
C2_Converged ==
    \A p \in DOMAIN h :
        (h[p].pc = "done" /\ h[p].err = "" /\ ~h[p].interfered)
            => DOMAIN getSGIPs(sg) = Desired(p)

TerminatingCidr(p) == PublicIpOf(h[p].request.EC2InstanceID) \o "/32"

\* C3: on a TERMINATING event the address of the instance the event names is
\* not in the Desired Set, and if it is observed it is in ipsToRemove (no
\* other instance holds the same address here).
C3_TerminatingExcluded ==
    \A p \in DOMAIN h :
        (InventoryRead(p) /\ h[p].request.LifecycleTransition = "autoscaling:EC2_INSTANCE_TERMINATING")
            => /\ TerminatingCidr(p) \notin Desired(p)
               /\ (BothRead(p) /\ TerminatingCidr(p) \in Observed(p))
                     => TerminatingCidr(p) \in ToRemove(p)

\* The three conditions of the Inventory Reader, read off the provider's state.
Qualifies(i, req) ==
    /\ instances[i].State \notin {"shutting-down", "terminated"}
    /\ instances[i].PublicIpAddress # ""
    /\ \/ req.LifecycleTransition # "autoscaling:EC2_INSTANCE_TERMINATING"
       \/ i # req.EC2InstanceID

\* C4: the map getASGPublicIPs returns has as keys exactly the /32 forms of
\* the addresses of the listed members that qualify, each mapped to its address.
C4_DesiredSet ==
    \A p \in DOMAIN h :
        (InventoryRead(p) /\ ~h[p].interfered)
            => /\ Desired(p) = {instances[i].PublicIpAddress \o "/32" :
                                  i \in {j \in Listed(asgGroups) : Qualifies(j, h[p].request)}}
               /\ \A k \in Desired(p) : h[p].asgIPs[k] \o "/32" = k

\* C4 witness: a TERMINATING event names a listed running instance with an
\* address, and the other member contributes.
C4_Witness ==
    \E p \in DOMAIN h :
        /\ InventoryRead(p) /\ ~h[p].interfered
        /\ h[p].request.LifecycleTransition = "autoscaling:EC2_INSTANCE_TERMINATING"
        /\ h[p].request.EC2InstanceID \in Listed(asgGroups)
        /\ instances[h[p].request.EC2InstanceID].State = "running"
        /\ instances[h[p].request.EC2InstanceID].PublicIpAddress # ""
        /\ Cardinality(Desired(p)) = 1

\* The Handler is past its authorize and revoke steps.
PastConverge(p) == h[p].pc \in {"CompleteLifecycleAction", "done"}

\* C5: the group-not-found error is returned only for an absent group, never
\* for a group without members; and with an empty Desired Set the Handler
\* issues no authorize, revokes exactly the Observed Set when that is not
\* empty, and on success returns it as removed_ips.
C5_DrainAll ==
    \A p \in DOMAIN h :
        /\ h[p].err = "autoscaling group response is empty" => asgGroups = <<>>
        /\ (BothRead(p) /\ Desired(p) = {}) =>
              /\ CallsOf(p, "AuthorizeSecurityGroupIngress") = {}
              /\ (PastConverge(p) /\ Observed(p) # {}) =>
                    /\ Cardinality(CallsOf(p, "RevokeSecurityGroupIngress")) = 1
                    /\ \A i \in CallsOf(p, "RevokeSecurityGroupIngress") :
                          CidrsOf(h[p].calls[i]) = Observed(p)
              /\ (h[p].pc = "done" /\ h[p].err = "") =>
                    /\ h[p].response.AddedIPs = <<>>
                    /\ SeqToSet(h[p].response.RemovedIPs) = Observed(p)
                    /\ Len(h[p].response.RemovedIPs) = Cardinality(Observed(p))

\* C5 witness: a group without members, two observed addresses, both revoked.
C5_Witness ==
    \E p \in DOMAIN h :
        /\ h[p].pc = "done" /\ h[p].err = "" /\ ~h[p].interfered
        /\ asgGroups = <<[Instances |-> <<>>]>>
        /\ Len(h[p].response.RemovedIPs) = 2

\* C6: authorize is called iff both reads succeeded and ipsToAdd is not empty;
\* revoke iff moreover authorize did not fail and ipsToRemove is not empty;
\* neither carries an empty list, neither is called twice; with Desired and
\* Observed both empty there is no such call and the response lists are empty.
C6_Calls ==
    \A p \in DOMAIN h :
        LET auth == CallsOf(p, "AuthorizeSecurityGroupIngress")
            rev == CallsOf(p, "RevokeSecurityGroupIngress")
        IN /\ Cardinality(auth) <= 1
           /\ Cardinality(rev) <= 1
           /\ \A i \in auth \cup rev :
                 /\ Len(h[p].calls[i].arg) > 0
                 /\ \A j \in 1..Len(h[p].calls[i].arg) : h[p].calls[i].arg[j].IpRanges # {}
           /\ auth # {} => (BothRead(p) /\ h[p].ipsToAdd # <<>>)
           /\ rev # {} => /\ BothRead(p)
                          /\ h[p].ipsToRemove # <<>>
                          /\ \A i \in auth : h[p].calls[i].ok
           /\ (PastConverge(p) /\ BothRead(p) /\ h[p].ipsToAdd # <<>>) => auth # {}
           /\ (/\ PastConverge(p) /\ BothRead(p) /\ h[p].ipsToRemove # <<>>
               /\ \A i \in auth : h[p].calls[i].ok) => rev # {}
           /\ (PastConverge(p) /\ BothRead(p) /\ Desired(p) = {} /\ Observed(p) = {}) =>
                 /\ auth = {} /\ rev = {}
                 /\ h[p].err = ""
                 /\ h[p].pc = "done" => h[p].response = NoResponse

\* C6 witness: a run that called authorize and then revoke.
C6_Witness ==
    \E p \in DOMAIN h :
        /\ h[p].pc = "done"
        /\ CallsOf(p, "AuthorizeSecurityGroupIngress") # {}
        /\ CallsOf(p, "RevokeSecurityGroupIngress") # {}

\* C6 second case: nothing desired, nothing observed, the run returned.
C6_WitnessEmpty ==
    \E p \in DOMAIN h :
        /\ h[p].pc = "done" /\ BothRead(p)
        /\ Desired(p) = {} /\ Observed(p) = {}

\* A mutation call: authorize or revoke.
MutationsOf(p) ==
    CallsOf(p, "AuthorizeSecurityGroupIngress") \cup CallsOf(p, "RevokeSecurityGroupIngress")

\* C7: an invocation that repeats the request of a successful undisturbed one,
\* itself undisturbed, computes two empty diffs, issues no authorize and no
\* revoke, leaves the rules as they were and returns empty lists.
C7_Idempotent ==
    \A p \in DOMAIN h :
        (h[p].repeat /\ ~h[p].interfered /\ BothRead(p)) =>
            /\ h[p].ipsToAdd = <<>>
            /\ h[p].ipsToRemove = <<>>
            /\ MutationsOf(p) = {}
            /\ sg = h[p].sgStart
            /\ h[p].pc = "done" => (h[p].err = "" /\ h[p].response = NoResponse)

\* The last call of the log is a CompleteLifecycleAction with this result.
LastCallIsAck(p, result) ==
    /\ Len(h[p].calls) > 0
    /\ h[p].calls[Len(h[p].calls)].op = "CompleteLifecycleAction"
    /\ h[p].calls[Len(h[p].calls)].arg = <<result>>

\* C8: an invocation that got its session and returned has sent exactly one
\* CompleteLifecycleAction, as its last provider call: CONTINUE iff it returns
\* success, ABANDON iff it returns an error.
C8_OneAck ==
    \A p \in DOMAIN h :
        (h[p].pc = "done" /\ h[p].err # "NewSession") =>
            /\ Cardinality(CallsOf(p, "CompleteLifecycleAction")) = 1
            /\ h[p].err = "" <=> LastCallIsAck(p, LifecycleActionResultContinue)
            /\ h[p].err # "" <=> LastCallIsAck(p, LifecycleActionResultAbandon)

\* Authorize succeeded and revoke then failed within invocation p.
RevokeFailedAfterAuthorize(p) ==
    /\ \E i \in CallsOf(p, "AuthorizeSecurityGroupIngress") : h[p].calls[i].ok
    /\ \E i \in CallsOf(p, "RevokeSecurityGroupIngress") : ~h[p].calls[i].ok

\* C9: when authorize succeeds and revoke fails, the invocation returns the
\* revoke error, acknowledges ABANDON, calls nothing to compensate, and the
\* security group holds exactly Observed + toAdd.
C9_PartialFailure ==
    \A p \in DOMAIN h :
        (h[p].pc = "done" /\ ~h[p].interfered /\ RevokeFailedAfterAuthorize(p)) =>
            /\ h[p].err = "RevokeSecurityGroupIngress"
            /\ LastCallIsAck(p, LifecycleActionResultAbandon)
            /\ Cardinality(MutationsOf(p)) = 2
            /\ ToAdd(p) \cup ToRemove(p) \subseteq AllCidrs(sg)
            /\ AllCidrs(sg) = Observed(p) \cup ToAdd(p)

\* getASGPublicIPs returned an error.
InventoryFailed(p) ==
    h[p].err \in {"DescribeAutoScalingGroups", "autoscaling group response is empty",
                  "DescribeInstances"}

\* C10: when the inventory read fails, at the group description or at any
\* member's lookup, the invocation describes no security group, authorizes
\* and revokes nothing, leaves the rules as they were, uses no part of the
\* Desired Set, acknowledges ABANDON and returns the error.
C10_InventoryFailure ==
    \A p \in DOMAIN h :
        InventoryFailed(p) =>
            /\ CallsOf(p, "DescribeSecurityGroups") = {}
            /\ MutationsOf(p) = {}
            /\ sg = h[p].sgStart
            /\ h[p].ipsToAdd = <<>> /\ h[p].ipsToRemove = <<>>
            /\ h[p].response = NoResponse
            /\ h[p].pc \in {"CompleteLifecycleAction", "done"}
            /\ h[p].status = LifecycleActionResultAbandon
            /\ h[p].pc = "done" =>
                  /\ LastCallIsAck(p, LifecycleActionResultAbandon)
                  /\ Cardinality(CallsOf(p, "CompleteLifecycleAction")) = 1

\* C10 witness: the second member's lookup failed after the first one had
\* put an address into the map, and the invocation returned.
C10_Witness ==
    \E p \in DOMAIN h :
        /\ h[p].pc = "done"
        /\ h[p].err = "DescribeInstances"
        /\ Desired(p) # {}
        /\ Cardinality(CallsOf(p, "DescribeInstances")) = 2

\* The error of the step that ended invocation p before any acknowledgment:
\* the failed provider call, the empty group description, or none.
StepError(p) ==
    LET failed == {i \in 1..Len(h[p].calls) :
                     /\ h[p].calls[i].op # "CompleteLifecycleAction"
                     /\ ~h[p].calls[i].ok}
    IN IF failed # {} THEN h[p].calls[CHOOSE i \in failed : TRUE].op
       ELSE IF asgGroups = <<>> /\ CallsOf(p, "DescribeAutoScalingGroups") # {}
            THEN "autoscaling group response is empty"
            ELSE ""

\* The CompleteLifecycleAction call of invocation p failed.
AckFailed(p) ==
    \E i \in CallsOf(p, "CompleteLifecycleAction") : ~h[p].calls[i].ok

\* C11: a failed CompleteLifecycleAction call never changes what the
\* invocation returns: after a failed ABANDON the error is still the one of
\* the step that failed and the lists are empty, after a failed CONTINUE the
\* invocation still returns success with the two lists.
C11_AckFailureIgnored ==
    \A p \in DOMAIN h :
        (h[p].pc = "done" /\ AckFailed(p)) =>
            /\ h[p].err = StepError(p)
            /\ h[p].err # "CompleteLifecycleAction"
            /\ h[p].status = LifecycleActionResultAbandon =>
                  (h[p].err # "" /\ h[p].response = NoResponse)
            /\ h[p].status = LifecycleActionResultContinue =>
                  /\ h[p].err = ""
                  /\ h[p].response = [AddedIPs |-> h[p].ipsToAdd,
                                      RemovedIPs |-> h[p].ipsToRemove]

\* C11 witness: the CONTINUE of a run that authorized an address failed.
C11_Witness ==
    \E p \in DOMAIN h :
        /\ h[p].pc = "done" /\ AckFailed(p)
        /\ h[p].status = LifecycleActionResultContinue
        /\ h[p].ipsToAdd # <<>>

\* C11, second case: the ABANDON after a failed revoke failed as well.
C11_WitnessAbandon ==
    \E p \in DOMAIN h :
        /\ h[p].pc = "done" /\ AckFailed(p)
        /\ h[p].status = LifecycleActionResultAbandon
        /\ h[p].err = "RevokeSecurityGroupIngress"

\* The CIDRs invocation p submitted in its calls of operation op.
SubmittedIn(p, op) == UNION {CidrsOf(h[p].calls[i]) : i \in CallsOf(p, op)}

\* C12: a returned invocation has one of two results: no error, with
\* added_ips exactly the CIDRs submitted in the authorize call and
\* removed_ips exactly those submitted in the revoke call; or an error with
\* both lists empty, also when an authorize call succeeded before.
C12_ResultShapes ==
    \A p \in DOMAIN h :
        h[p].pc = "done" =>
            /\ h[p].err = "" =>
                  /\ SeqToSet(h[p].response.AddedIPs) =
                        SubmittedIn(p, "AuthorizeSecurityGroupIngress")
                  /\ SeqToSet(h[p].response.RemovedIPs) =
                        SubmittedIn(p, "RevokeSecurityGroupIngress")
                  /\ h[p].response.AddedIPs = h[p].ipsToAdd
                  /\ h[p].response.RemovedIPs = h[p].ipsToRemove
                  /\ \A i \in MutationsOf(p) : h[p].calls[i].ok
            /\ h[p].err # "" =>
                  /\ h[p].response.AddedIPs = <<>>
                  /\ h[p].response.RemovedIPs = <<>>

\* C12 witness: an invocation returned the revoke error after its authorize
\* call had succeeded.
C12_Witness ==
    \E p \in DOMAIN h :
        /\ h[p].pc = "done"
        /\ h[p].err = "RevokeSecurityGroupIngress"
        /\ RevokeFailedAfterAuthorize(p)
        /\ h[p].ipsToAdd # <<>>

\* C12, the success shape: an invocation returned both lists non-empty.
C12_WitnessSuccess ==
    \E p \in DOMAIN h :
        /\ h[p].pc = "done" /\ h[p].err = ""
        /\ h[p].response.AddedIPs # <<>>
        /\ h[p].response.RemovedIPs # <<>>

\* C14: the Observed Set an invocation holds after a successful describe is
\* exactly the CIDR ranges of the first ingress entry of the group as it
\* stood (each CIDR mapped to itself), with nothing from a later entry, and
\* is empty for a group with no entry; when the describe call fails nothing
\* is observed, no diff is computed and no rule is changed.  No other
\* invocation runs here, so the group read is the group at entry.
C14_FirstEntryOnly ==
    \A p \in DOMAIN h :
        /\ BothRead(p) =>
              /\ Len(h[p].sgStart) = 0 => Observed(p) = {}
              /\ Len(h[p].sgStart) > 0 => Observed(p) = h[p].sgStart[1].IpRanges
              /\ \A c \in Observed(p) : h[p].sgIPs[c] = c
        /\ h[p].err = "DescribeSecurityGroups" =>
              /\ ~BothRead(p)
              /\ h[p].sgIPs = EmptyMap
              /\ h[p].ipsToAdd = <<>> /\ h[p].ipsToRemove = <<>>
              /\ MutationsOf(p) = {}
              /\ sg = h[p].sgStart

\* C14 witness: the group had two entries and the invocation observed the
\* ranges of the first and none of the second.
C14_Witness ==
    \E p \in DOMAIN h :
        /\ BothRead(p)
        /\ Len(h[p].sgStart) = 2
        /\ Observed(p) # {}
        /\ h[p].sgStart[2].IpRanges \cap Observed(p) = {}

\* C14, the other cases: an empty group read, and a failed describe.
C14_WitnessEmpty ==
    \E p \in DOMAIN h : BothRead(p) /\ Len(h[p].sgStart) = 0 /\ Desired(p) # {}

C14_WitnessError ==
    \E p \in DOMAIN h :
        /\ h[p].pc = "done" /\ h[p].err = "DescribeSecurityGroups"
        /\ Desired(p) # {} /\ Len(h[p].sgStart) > 0

\* The entry carries protocol tcp and the port range of the Handler at work.
FixedRule(e) ==
    /\ e.IpProtocol = "tcp"
    /\ e.FromPort = (IF variant = "part_002" THEN 443 ELSE 0)
    /\ e.ToPort = (IF variant = "part_002" THEN 443 ELSE 65535)

\* The call carries a single entry whose ranges are the whole list.
OneEntryFor(call, ips) ==
    /\ Len(call.arg) = 1
    /\ call.arg[1].IpRanges = SeqToSet(ips)
    /\ FixedRule(call.arg[1])

\* The call carries one entry per element of the list, in the list's order,
\* each with that one CIDR.
EntryPerCidr(call, ips) ==
    /\ Len(call.arg) = Len(ips)
    /\ \A k \in 1..Len(ips) :
          /\ call.arg[k].IpRanges = {ips[k]}
          /\ FixedRule(call.arg[k])

\* C15 as stated: the authorize call of an invocation carries exactly one
\* rule entry whose CIDR list is the whole of toAdd, with protocol tcp and
\* the fixed port range, and the revoke call likewise one entry with the
\* whole of toRemove, same protocol and port range.
C15_OneBatchedEntry ==
    \A p \in DOMAIN h :
        /\ \A i \in CallsOf(p, "AuthorizeSecurityGroupIngress") :
              OneEntryFor(h[p].calls[i], h[p].ipsToAdd)
        /\ \A i \in CallsOf(p, "RevokeSecurityGroupIngress") :
              OneEntryFor(h[p].calls[i], h[p].ipsToRemove)

\* C15 amended: an invocation issues at most one authorize call and at most
\* one revoke call; a call is issued only for a non-empty list and carries
\* one rule entry per CIDR of the list, each entry with that single CIDR,
\* protocol tcp and the Handler's fixed port range, so that the call's
\* entries together cover exactly toAdd (toRemove), and the revoke entries
\* use the protocol and port range of the authorize entries.
C15_EntryPerCidr ==
    \A p \in DOMAIN h :
        /\ Cardinality(CallsOf(p, "AuthorizeSecurityGroupIngress")) <= 1
        /\ Cardinality(CallsOf(p, "RevokeSecurityGroupIngress")) <= 1
        /\ \A i \in CallsOf(p, "AuthorizeSecurityGroupIngress") :
              /\ h[p].ipsToAdd # <<>>
              /\ EntryPerCidr(h[p].calls[i], h[p].ipsToAdd)
              /\ CidrsOf(h[p].calls[i]) = ToAdd(p)
        /\ \A i \in CallsOf(p, "RevokeSecurityGroupIngress") :
              /\ h[p].ipsToRemove # <<>>
              /\ EntryPerCidr(h[p].calls[i], h[p].ipsToRemove)
              /\ CidrsOf(h[p].calls[i]) = ToRemove(p)
        /\ \A i \in CallsOf(p, "AuthorizeSecurityGroupIngress"),
              j \in CallsOf(p, "RevokeSecurityGroupIngress") :
              \A a \in SeqToSet(h[p].calls[i].arg), r \in SeqToSet(h[p].calls[j].arg) :
                  SameRule(a, r)

\* C15 witness: an authorize call with two entries succeeded and a revoke
\* call followed.
C15_Witness ==
    \E p \in DOMAIN h :
        /\ \E i \in CallsOf(p, "AuthorizeSecurityGroupIngress") :
              h[p].calls[i].ok /\ Len(h[p].calls[i].arg) = 2
        /\ CallsOf(p, "RevokeSecurityGroupIngress") # {}

\* C15, the revoke side: a revoke call with two entries.
C15_WitnessRevoke ==
    \E p \in DOMAIN h :
        \E i \in CallsOf(p, "RevokeSecurityGroupIngress") : Len(h[p].calls[i].arg) = 2

\* No CIDR is carried by two entries of the call.
EntriesDisjoint(call) ==
    \A k, l \in 1..Len(call.arg) :
        k # l => call.arg[k].IpRanges \cap call.arg[l].IpRanges = {}

\* C16: within one invocation no CIDR appears in more than one entry of the
\* authorize call, none in more than one entry of the revoke call, none in
\* both calls, and a CIDR that is both observed and desired appears in
\* neither call.
C16_TouchedOnce ==
    \A p \in DOMAIN h :
        /\ \A i \in MutationsOf(p) : EntriesDisjoint(h[p].calls[i])
        /\ Cardinality(CallsOf(p, "AuthorizeSecurityGroupIngress")) <= 1
        /\ Cardinality(CallsOf(p, "RevokeSecurityGroupIngress")) <= 1
        /\ SubmittedIn(p, "AuthorizeSecurityGroupIngress")
              \cap SubmittedIn(p, "RevokeSecurityGroupIngress") = {}
        /\ BothRead(p) =>
              (Observed(p) \cap Desired(p))
                \cap (SubmittedIn(p, "AuthorizeSecurityGroupIngress")
                        \cup SubmittedIn(p, "RevokeSecurityGroupIngress")) = {}

\* C16 witness: an invocation that found one address both observed and
\* desired has issued both calls.
C16_Witness ==
    \E p \in DOMAIN h :
        /\ BothRead(p)
        /\ Observed(p) \cap Desired(p) # {}
        /\ CallsOf(p, "AuthorizeSecurityGroupIngress") # {}
        /\ CallsOf(p, "RevokeSecurityGroupIngress") # {}

\* The place of a provider operation in the Handler's text.
Rank(op) ==
    CASE op = "DescribeAutoScalingGroups" -> 1
      [] op = "DescribeInstances" -> 2
      [] op = "DescribeSecurityGroups" -> 3
      [] op = "AuthorizeSecurityGroupIngress" -> 4
      [] op = "RevokeSecurityGroupIngress" -> 5
      [] op = "CompleteLifecycleAction" -> 6

\* The calls of invocation p so far are in the order of the text, every
\* member was looked up before the security group was described, and every
\* call that precedes a mutation call succeeded.
CallsInOrder(p) ==
    LET calls == h[p].calls
    IN /\ \A i, j \in 1..Len(calls) :
             i < j =>
               /\ Rank(calls[i].op) <= Rank(calls[j].op)
               /\ calls[j].op \in {"AuthorizeSecurityGroupIngress",
                                   "RevokeSecurityGroupIngress"} => calls[i].ok
               /\ Rank(calls[i].op) = Rank(calls[j].op) => calls[i].op = "DescribeInstances"
       /\ CallsOf(p, "DescribeSecurityGroups") # {} =>
             /\ Cardinality(CallsOf(p, "DescribeAutoScalingGroups")) = 1
             /\ Cardinality(CallsOf(p, "DescribeInstances")) = Len(h[p].members)

\* Invocation p stands between its successful authorize call and its revoke call.
BetweenMutations(p) ==
    /\ h[p].pc = "Revoke"
    /\ CallsOf(p, "AuthorizeSecurityGroupIngress") # {}

\* The order of calls and the lower bound on the rules: the part of C17 that
\* does not depend on what getSGIPs reads.
C17_OrderAndKept ==
    \A p \in DOMAIN h :
        /\ CallsInOrder(p)
        /\ (BothRead(p) /\ ~h[p].interfered) =>
              Observed(p) \cap Desired(p) \subseteq AllCidrs(sg)

\* C17: the provider calls of an invocation occur in the order group
\* description, instance lookups, security group description, authorize,
\* revoke, each mutation only after every earlier call succeeded; and in an
\* invocation nothing disturbed the rules always hold every CIDR that is
\* both observed and desired and, between the authorize and the revoke
\* call, are exactly Observed union Desired (whether the rules are taken as
\* all ranges of the group or as the ranges getSGIPs reads).
C17_OrderedCalls ==
    \A p \in DOMAIN h :
        /\ CallsInOrder(p)
        /\ (BothRead(p) /\ ~h[p].interfered) =>
              Observed(p) \cap Desired(p) \subseteq AllCidrs(sg)
        /\ (BetweenMutations(p) /\ ~h[p].interfered) =>
              \/ AllCidrs(sg) = Observed(p) \cup Desired(p)
              \/ DOMAIN getSGIPs(sg) = Observed(p) \cup Desired(p)

\* No rule entry of the group is one the function did not create.
OwnRulesOnly == \A i \in 1..Len(sg) : sg[i] # ForeignPermission

\* The provider will reject the next mutation call of invocation p: its
\* authorize call names a rule that exists, or its revoke call one that
\* does not.
Rejected(p) ==
    \/ /\ h[p].pc = "Authorize"
       /\ HasDuplicate(sg, BuildPermissions(variant, h[p].ipsToAdd))
    \/ /\ h[p].pc = "Revoke"
       /\ ~(RuleCidrs(BuildPermissions(variant, h[p].ipsToRemove)) \subseteq RuleCidrs(sg))

\* Invocation p started after the other invocation q, which ran interleaved
\* with an earlier one, had returned, and q has not moved since.
AloneAfterRace(p) ==
    /\ h[p].pc # "idle"
    /\ ~h[p].interfered
    /\ \E q \in DOMAIN h : q # p /\ h[q].pc = "done" /\ h[q].raced

\* C13: after two invocations ran interleaved, whatever rules they left, a
\* further invocation that runs alone is never sent a mutation call the
\* provider must reject and, when it returns success, leaves rules from
\* which getSGIPs reads exactly its Desired Set.
C13_Reconverges ==
    \A p \in DOMAIN h :
        AloneAfterRace(p) =>
            /\ ~Rejected(p)
            /\ (h[p].pc = "done" /\ h[p].err = "") => DOMAIN getSGIPs(sg) = Desired(p)

\* C13 restricted to groups that hold no rule entry but the function's own.
C13_ReconvergesOwnRules ==
    \A p \in DOMAIN h :
        (OwnRulesOnly /\ AloneAfterRace(p)) =>
            /\ ~Rejected(p)
            /\ (h[p].pc = "done" /\ h[p].err = "") => DOMAIN getSGIPs(sg) = Desired(p)

\* C18: a race alone never abandons a lifecycle action: in a group that
\* holds only the function's own rules, a step of an invocation whose reads
\* all succeeded and whose mutation call the provider rejects, because
\* another invocation authorized or revoked the same CIDR in between, does
\* not end in an error and the choice of ABANDON.
C18_RaceNeverAbandons ==
    [][\A p \in DOMAIN h :
          (OwnRulesOnly /\ h[p].raced /\ Rejected(p)) =>
              /\ h'[p].err = ""
              /\ h'[p].status # LifecycleActionResultAbandon]_vars

\* The case the claim names: two invocations read the same Observed Set,
\* computed the same non-empty toAdd, and both returned.
SameToAddBothReturned ==
    /\ OwnRulesOnly
    /\ \A p \in DOMAIN h : h[p].pc = "done" /\ h[p].raced /\ BothRead(p)
    /\ \A p, q \in DOMAIN h :
          /\ Observed(p) = Observed(q)
          /\ ToAdd(p) = ToAdd(q)
          /\ ToAdd(p) # {}
    /\ \E p \in DOMAIN h :
          \E i \in CallsOf(p, "AuthorizeSecurityGroupIngress") : h[p].calls[i].ok

\* In the case the claim names one of the two invocations always returns a
\* mutation error after an ABANDON.
C18_OneAbandons ==
    SameToAddBothReturned =>
        \E p \in DOMAIN h :
            /\ h[p].err \in {"AuthorizeSecurityGroupIngress", "RevokeSecurityGroupIngress"}
            /\ LastCallIsAck(p, LifecycleActionResultAbandon)

====
